---- MODULE Spec2Model ----
(***************************************************************************)
(* A model of benjaminheng/archiver (src/main.go).                         *)
(*                                                                         *)
(* Strings are sequences of one-character strings.  The module has three   *)
(* layers:                                                                 *)
(*   - the link extractor (markdownLinkRegex, parseLinksFromMarkdown),     *)
(*   - the link identifier (getLinkID),                                    *)
(*   - the orchestrator (Archiver.Archive and the methods it calls) with   *)
(*     the output directory and the cache file as state.                   *)
(***************************************************************************)
EXTENDS Integers, Sequences, FiniteSets, TLC

\* ------------------------------------------------------------------------
\* Strings
\* ------------------------------------------------------------------------

NL == "\n"

RECURSIVE Flatten(_)
\* Concatenation of a sequence of strings.
Flatten(ss) ==
    IF ss = <<>> THEN <<>> ELSE Head(ss) \o Flatten(Tail(ss))

\* First index >= i of t whose character is in stop, or Len(t) + 1.
RunEnd(t, i, stop) ==
    LET S == {j \in i..Len(t) : t[j] \in stop}
    IN  IF S = {} THEN Len(t) + 1 ELSE CHOOSE j \in S : \A k \in S : j <= k

\* t has the string lit at index i.
HasAt(t, i, lit) ==
    /\ i >= 1
    /\ i + Len(lit) - 1 <= Len(t)
    /\ SubSeq(t, i, i + Len(lit) - 1) = lit

\* strings.HasSuffix
HasSuffix(t, suffix) ==
    /\ Len(suffix) <= Len(t)
    /\ SubSeq(t, Len(t) - Len(suffix) + 1, Len(t)) = suffix

\* Range of a sequence.
Range(s) == {s[i] : i \in 1..Len(s)}

\* ------------------------------------------------------------------------
\* Link extractor
\* ------------------------------------------------------------------------

HTTP == <<"h", "t", "t", "p">>
SchemeSep == <<":", "/", "/">>

NoMatch == [ok |-> FALSE, capStart |-> 0, capEnd |-> 0, end |-> 0]

\* markdownLinkRegex without the leading [^!]: any character may precede "[".
markdownLinkRegexAnyBefore(t, i) ==
    LET lb == i + 1
        le == RunEnd(t, lb + 1, {"[", "]"})
        sc == le + 2
        s  == IF HasAt(t, sc + 4, <<"s">>) THEN 1 ELSE 0
        us == sc + 4 + s + 3
        ue == RunEnd(t, us, {"(", ")"})
    IN  IF /\ i <= Len(t)
           /\ HasAt(t, lb, <<"[">>)
           /\ le > lb + 1
           /\ HasAt(t, le, <<"]", "(">>)
           /\ HasAt(t, sc, <<"h", "t", "t", "p">>)
           /\ HasAt(t, sc + 4 + s, <<":", "/", "/">>)
           /\ ue > us
           /\ HasAt(t, ue, <<")">>)
        THEN [ok |-> TRUE, capStart |-> sc, capEnd |-> ue - 1, end |-> ue + 1]
        ELSE [ok |-> FALSE, capStart |-> 0, capEnd |-> 0, end |-> 0]

\* markdownLinkRegex with (^|[^!]) in place of [^!]: at the start of the
\* text the link needs no character before its "[".
markdownLinkRegexAtStart(t, i) ==
    LET atStart == i = 1 /\ HasAt(t, 1, <<"[">>)
        lb == IF atStart THEN 1 ELSE i + 1
        le == RunEnd(t, lb + 1, {"[", "]"})
        sc == le + 2
        s  == IF HasAt(t, sc + 4, <<"s">>) THEN 1 ELSE 0
        us == sc + 4 + s + 3
        ue == RunEnd(t, us, {"(", ")"})
    IN  IF /\ i <= Len(t)
           /\ atStart \/ t[i] # "!"
           /\ HasAt(t, lb, <<"[">>)
           /\ le > lb + 1
           /\ HasAt(t, le, <<"]", "(">>)
           /\ HasAt(t, sc, HTTP)
           /\ HasAt(t, sc + 4 + s, SchemeSep)
           /\ ue > us
           /\ HasAt(t, ue, <<")">>)
        THEN [ok |-> TRUE, capStart |-> sc, capEnd |-> ue - 1, end |-> ue + 1]
        ELSE [ok |-> FALSE, capStart |-> 0, capEnd |-> 0, end |-> 0]

\* The match of markdownLinkRegex that starts at index i of t, if there is
\* one.  At a fixed start the match is unique: the label runs to the first
\* bracket, which must be "]", and the URL to the first parenthesis, which
\* must be ")".  capStart..capEnd is capture group 1; end is the index after
\* the match.
markdownLinkRegex(t, i) ==
    LET lb == i + 1
        le == RunEnd(t, lb + 1, {"[", "]"})
        sc == le + 2
        s  == IF HasAt(t, sc + 4, <<"s">>) THEN 1 ELSE 0
        us == sc + 4 + s + 3
        ue == RunEnd(t, us, {"(", ")"})
    IN  IF /\ i <= Len(t)
           /\ t[i] # "!"
           /\ HasAt(t, lb, <<"[">>)
           /\ le > lb + 1
           /\ HasAt(t, le, <<"]", "(">>)
           /\ HasAt(t, sc, HTTP)
           /\ HasAt(t, sc + 4 + s, SchemeSep)
           /\ ue > us
           /\ HasAt(t, ue, <<")">>)
        THEN [ok |-> TRUE, capStart |-> sc, capEnd |-> ue - 1, end |-> ue + 1]
        ELSE NoMatch

RECURSIVE FindAllStringSubmatch(_, _)
\* regexp.FindAllStringSubmatch(t, -1) from index i on: successive leftmost
\* matches, each search resuming where the previous match ended.
FindAllStringSubmatch(t, i) ==
    IF i > Len(t) THEN <<>>
    ELSE LET m == markdownLinkRegex(t, i)
         IN  IF m.ok THEN <<m>> \o FindAllStringSubmatch(t, m.end)
             ELSE FindAllStringSubmatch(t, i + 1)

\* parseLinksFromMarkdown: capture group 1 of every match, in order.
parseLinksFromMarkdown(markdown) ==
    LET matches == FindAllStringSubmatch(markdown, 1)
    IN  [n \in 1..Len(matches) |->
            SubSeq(markdown, matches[n].capStart, matches[n].capEnd)]

\* ------------------------------------------------------------------------
\* Link identifier
\* ------------------------------------------------------------------------

\* The truncation length of getLinkID.
MaxPrefix == 100

\* The class [a-zA-Z0-9_?=.-] of getLinkID's filter, restricted to the
\* characters the model's URLs are written in.
AllowedChars == {"a", "b", "c", "_", "?", "=", ".", "-"}

\* url.Parse and URL.RequestURI on an absolute http(s) link as the extractor
\* returns them, for links without "#", "%", "@", ":" after the scheme, and
\* without a space in the path or query.  The query is cut at the first "?";
\* the host runs to the first "/"; a space in the host is a parse error; an
\* empty path has the request URI "/".
urlParse(link) ==
    LET s     == IF HasAt(link, 5, <<"s">>) THEN 1 ELSE 0
        rest  == SubSeq(link, 4 + s + 4, Len(link))
        q     == RunEnd(rest, 1, {"?"})
        hier  == SubSeq(rest, 1, q - 1)
        query == SubSeq(rest, q, Len(rest))
        p     == RunEnd(hier, 1, {"/"})
        host  == SubSeq(hier, 1, p - 1)
        path  == SubSeq(hier, p, Len(hier))
    IN  [err  |-> " " \in Range(host),
         Host |-> host,
         RequestURI |-> (IF path = <<>> THEN <<"/">> ELSE path) \o query]

\* strings.ReplaceAll for one-character patterns.
ReplaceAll(t, old, new) ==
    [i \in 1..Len(t) |-> IF t[i] = old THEN new ELSE t[i]]

\* regexp "[^a-zA-Z0-9_?=.-]+" replaced by "": keep the allowed characters.
StripDisallowed(t) == SelectSeq(t, LAMBDA c : c \in AllowedChars)

RECURSIVE TrimRight(_, _)
\* strings.TrimRight(t, c) for a single character c.
TrimRight(t, c) ==
    IF t # <<>> /\ t[Len(t)] = c THEN TrimRight(SubSeq(t, 1, Len(t) - 1), c)
    ELSE t

\* Lines 136-147: host + "_" + request URI, normalized.
Normalize(u) ==
    LET raw == u.Host \o <<"_">> \o u.RequestURI
        r1  == ReplaceAll(raw, "/", "_")
        r2  == ReplaceAll(r1, "?", "-")
        r3  == ReplaceAll(r2, "=", "-")
    IN  TrimRight(StripDisallowed(r3), "_")

\* Lines 150-153 without the truncation.
TruncateNothing(t) == t

\* Lines 150-153: the first MaxPrefix code points (the normalized string is
\* ASCII after the filter, one code point per element).
Truncate(t) == IF Len(t) > MaxPrefix THEN SubSeq(t, 1, MaxPrefix) ELSE t

\* The byte of a character (ASCII), for the characters the model uses.
CharCode(c) ==
    CASE c = "\n" -> 10 [] c = " " -> 32 [] c = "!" -> 33 [] c = "(" -> 40
      [] c = ")" -> 41 [] c = "-" -> 45 [] c = "." -> 46 [] c = "/" -> 47
      [] c = "0" -> 48 [] c = "1" -> 49 [] c = "2" -> 50 [] c = "3" -> 51
      [] c = "4" -> 52 [] c = "5" -> 53 [] c = "6" -> 54 [] c = "7" -> 55
      [] c = "8" -> 56 [] c = "9" -> 57 [] c = ":" -> 58 [] c = "=" -> 61
      [] c = "?" -> 63 [] c = "[" -> 91 [] c = "]" -> 93 [] c = "_" -> 95
      [] c = "a" -> 97 [] c = "b" -> 98 [] c = "c" -> 99 [] c = "d" -> 100
      [] c = "e" -> 101 [] c = "f" -> 102 [] c = "h" -> 104 [] c = "l" -> 108
      [] c = "m" -> 109 [] c = "p" -> 112 [] c = "s" -> 115 [] c = "t" -> 116
      [] c = "x" -> 120 [] c = "~" -> 126

RECURSIVE PolyHash(_, _, _, _)
\* Polynomial hash of t[i..] continued from h, multiplier km[1], modulo
\* km[2].  h is never negative: the test evaluates h before the next step.
PolyHash(t, i, h, km) ==
    IF i > Len(t) \/ h < 0 THEN h
    ELSE PolyHash(t, i + 1, (h * km[1] + CharCode(t[i])) % km[2], km)

HexDigits == <<"0", "1", "2", "3", "4", "5", "6", "7",
               "8", "9", "a", "b", "c", "d", "e", "f">>

\* Four hexadecimal digits of n < 65536.
Hex4(n) ==
    << HexDigits[(n \div 4096) + 1], HexDigits[((n \div 256) % 16) + 1],
       HexDigits[((n \div 16) % 16) + 1], HexDigits[(n % 16) + 1] >>

\* fmt.Sprintf("%x", sha256.Sum256(t))[:8]: a deterministic digest of t of
\* eight hexadecimal digits.  SHA-256 itself is stood in for by two 16-bit
\* polynomial hashes, which separate the strings the model hashes.
Sha256Hex8(t) ==
    LET Digest(x) ==
            Hex4(PolyHash(x, 1, 7, <<31, 65536>>))
                \o Hex4(PolyHash(x, 1, 1, <<131, 65521>>))
    IN  CHOOSE d \in {Digest(x) : x \in {t}} : TRUE

\* getLinkID: [err, id].
getLinkID(link) ==
    LET u == urlParse(link)
        Id(linkID) == linkID \o <<"_">> \o Sha256Hex8(linkID)
    IN  IF u.err THEN [err |-> TRUE, id |-> <<>>]
        ELSE [err |-> FALSE,
              id |-> CHOOSE d \in {Id(x) : x \in {Truncate(Normalize(u))}} : TRUE]

\* ------------------------------------------------------------------------
\* Dedup cache: the file .checked_links.txt and the map checkedLinks
\* ------------------------------------------------------------------------

\* s < t in byte order, as sort.Strings compares.
StringLess(s, t) ==
    LET n == IF Len(s) < Len(t) THEN Len(s) ELSE Len(t)
        D == {i \in 1..n : s[i] # t[i]}
        d == CHOOSE i \in D : \A j \in D : i <= j
    IN  IF D = {} THEN Len(s) < Len(t)
        ELSE CharCode(s[d]) < CharCode(t[d])

RECURSIVE SortStrings(_)
\* The elements of the set S as a sequence in ascending order.
SortStrings(S) ==
    IF S = {} THEN <<>>
    ELSE LET m == CHOOSE x \in S : \A y \in S \ {x} : StringLess(x, y)
         IN  <<m>> \o SortStrings(S \ {m})

RECURSIVE Split(_)
\* strings.Split(b, "\n"): never empty; "" splits into one empty string.
Split(b) ==
    LET e == RunEnd(b, 1, {NL})
    IN  IF e > Len(b) THEN <<b>>
        ELSE <<SubSeq(b, 1, e - 1)>> \o Split(SubSeq(b, e + 1, Len(b)))

RECURSIVE Join(_)
\* strings.Join(ss, "\n")
Join(ss) ==
    IF ss = <<>> THEN <<>>
    ELSE IF Len(ss) = 1 THEN ss[1]
    ELSE ss[1] \o <<NL>> \o Join(Tail(ss))

\* File.WriteString on a file opened with O_CREATE|O_WRONLY and no O_TRUNC:
\* the bytes are written from offset 0 over the old content, and what the
\* old content has beyond them stays.
WriteFromStart(old, new) ==
    new \o SubSeq(old, Len(new) + 1, Len(old))

\* initCheckedLinkCache, lines 231-235: the set of lines of the file.
LoadCheckedLinks(bytes) == Range(Split(bytes))

\* writeCheckedLinkCache, lines 211-216: the file content after the write.
writeCheckedLinkCache(bytes, m) == WriteFromStart(bytes, Join(SortStrings(m)))

\* A fresh Archiver: checkedLinks is nil.
NilMap == [isNil |-> TRUE, m |-> {}]

\* isLinkCheckedBefore: a nil map reads as empty.
isLinkCheckedBefore(cl, linkID) == linkID \in cl.m

\* setLinkChecked that records nothing.
setLinkCheckedNothing(cl, linkID) == cl

\* setLinkChecked: no effect on a nil map.
setLinkChecked(cl, linkID) ==
    IF cl.isNil THEN cl ELSE [cl EXCEPT !.m = @ \cup {linkID}]

\* ------------------------------------------------------------------------
\* The input tree and the output directory
\* ------------------------------------------------------------------------

\* Largest number of files in the input tree.
MaxDocs == 2
\* Largest number of links in one document.
MaxLinks == 2
\* Largest number of lines of the cache file before the first run.
MaxCacheLines == 2
\* Number of runs of the program, one after the other.
MaxRuns == 2

SeqsUpTo(S, n) == UNION {[1..k -> S] : k \in 0..n}

\* UrlA and UrlA2 have the same LinkID; the LinkID of UrlB is longer and
\* sorts before it; url.Parse rejects UrlBad.
UrlA == HTTP \o SchemeSep \o <<"b">>
UrlA2 == HTTP \o <<"s">> \o SchemeSep \o <<"b", "/">>
UrlB == HTTP \o SchemeSep \o <<"a", "/", "c">>
UrlBad == HTTP \o SchemeSep \o <<"b", " ", "c">>
LinkUrls == {UrlA, UrlA2, UrlB, UrlBad}

\* A markdown link to u, preceded by a space.
MdLink(u) == <<" ", "[", "l", "]", "(">> \o u \o <<")">>

\* The texts of the .md documents: up to MaxLinks links.
DocTexts ==
    {Flatten([i \in 1..Len(us) |-> MdLink(us[i])]) :
        us \in SeqsUpTo({UrlA, UrlA2, UrlBad}, MaxLinks)}

MdName == <<"d", ".", "m", "d">>
MarkdownName == <<"d", ".", "m", "a", "r", "k", "d", "o", "w", "n">>
TxtName == <<"d", ".", "t", "x", "t">>

\* The files of an input tree: .md documents, a document that cannot be
\* read, a .markdown document and a file that is no markdown document.
Files ==
    {[name |-> MdName, readable |-> TRUE, text |-> t] : t \in DocTexts}
    \cup {[name |-> MdName, readable |-> FALSE, text |-> <<>>],
          [name |-> MarkdownName, readable |-> TRUE, text |-> MdLink(UrlB)],
          [name |-> TxtName, readable |-> TRUE, text |-> MdLink(UrlB)]}

\* Input trees, as the sequence of their files in the order of filepath.Walk.
Trees == SeqsUpTo(Files, MaxDocs)

\* Archive, line 181
IsMarkdown(name) ==
    HasSuffix(name, <<".", "m", "d">>)
        \/ HasSuffix(name, <<".", "m", "a", "r", "k", "d", "o", "w", "n">>)

\* The LinkIDs of the model's links: the entry directories there can be.
EntryIds == {getLinkID(u).id : u \in {v \in LinkUrls : ~getLinkID(v).err}}

NoEntry == [st |-> "none", url |-> <<>>, at |-> 0]

\* An entry directory is absent ("none"), or holds no index.html ("dir"), an
\* index.html without its full content ("file"), or the full content ("done").
\* Before the first run the entry of UrlA is absent or complete.
PriorEntries ==
    {[id \in EntryIds |-> IF id = getLinkID(UrlA).id THEN e ELSE NoEntry] :
        e \in {NoEntry, [st |-> "done", url |-> UrlA, at |-> 0]}}

\* The cache file before the first run: absent, or up to MaxCacheLines lines,
\* each empty or a LinkID, in any order and with repetitions.
PriorCaches ==
    {[exists |-> FALSE, bytes |-> <<>>]}
    \cup {[exists |-> TRUE, bytes |-> Join(ls)] :
            ls \in SeqsUpTo({<<>>, getLinkID(UrlB).id}, MaxCacheLines)}

\* os.Stat that finds entry directories only: the path of an empty linkID,
\* the output directory, is reported missing.
StatEntryOnly(e, linkID) == linkID \in DOMAIN e /\ e[linkID].st # "none"

\* os.Stat that finds no entry directory.
StatNoEntry(e, linkID) == linkID = <<>>

\* os.Stat of path.Join(outputDir, linkID) finds something: the entry
\* directory, or for an empty linkID the output directory itself.
Stat(e, linkID) ==
    linkID = <<>> \/ (linkID \in DOMAIN e /\ e[linkID].st # "none")

PutEntry(e, linkID, rec) ==
    IF linkID \in DOMAIN e THEN [e EXCEPT ![linkID] = rec] ELSE e

\* ------------------------------------------------------------------------
\* State
\* ------------------------------------------------------------------------

VARIABLES
    tree,          \* the input tree
    cache,         \* .checked_links.txt: [exists, bytes]
    entries,       \* the entry directories under the output directory
    checkedLinks,  \* Archiver.checkedLinks
    pc,            \* "start", "walk" or "exit"
    result,        \* what Archive returned: "none" yet, "nil", "err"; "crash"
    cause,         \* the call whose error Archive returned
    docIdx,        \* the next file of the walk
    links,         \* the links of the document being processed
    linkIdx,       \* the next link of the loop of processLinksInMarkdownFile
    log,           \* this run's links and what became of each
    flushes,       \* this run's writes of the cache file
    run,           \* the number of this run
    prevLog,       \* the log of the run before
    prevResult,    \* the result of the run before
    cache0,        \* the cache file when this run started
    entries0,      \* the entry directories when this run started
    markdown,      \* extractor: the document text
    parsed,        \* extractor: the result of parseLinksFromMarkdown(markdown)
    idIn,          \* identifier: the link
    idOut          \* identifier: the result of getLinkID(idIn)

archVars == <<tree, cache, entries, checkedLinks, pc, result, cause, docIdx,
              links, linkIdx, log, flushes, run, prevLog, prevResult, cache0,
              entries0>>
pureVars == <<markdown, parsed, idIn, idOut>>
vars == <<archVars, pureVars>>

NotParsed == [done |-> FALSE, matches |-> <<>>, links |-> <<>>]
NotIdentified == [done |-> FALSE, err |-> FALSE, id |-> <<>>]

\* No extractor or identifier call is under way.
PureIdle ==
    /\ markdown = <<>>
    /\ parsed = NotParsed
    /\ idIn = <<>>
    /\ idOut = <<>>

\* The program is started on the tree t with the cache file c and the entry
\* directories e; or it is not started at all (start = "off").
ArchInit(t, c, e, start) ==
    /\ tree = t
    /\ cache = c
    /\ entries = e
    /\ checkedLinks = NilMap
    /\ pc = start
    /\ result = "none"
    /\ cause = "none"
    /\ docIdx = 1
    /\ links = <<>>
    /\ linkIdx = 1
    /\ log = <<>>
    /\ flushes = 0
    /\ run = 1
    /\ prevLog = <<>>
    /\ prevResult = "none"
    /\ cache0 = c
    /\ entries0 = e

Init ==
    /\ \E t \in Trees, c \in PriorCaches, e \in PriorEntries :
            ArchInit(t, c, e, "start")
    /\ PureIdle


\* ------------------------------------------------------------------------
\* Archive
\* ------------------------------------------------------------------------

\* Archive, lines 172-175, with initCheckedLinkCache: the cache file is
\* opened with O_CREATE and read into the map, or the open or the read fails
\* and Archive returns the error.
ArchiveBegin ==
    /\ pc = "start"
    /\ \E io \in {"ok", "err"} :
        IF io = "err"
        THEN /\ pc' = "exit"
             /\ result' = "err"
             /\ cause' = "cacheread"
             /\ UNCHANGED <<cache, checkedLinks>>
        ELSE /\ cache' = [exists |-> TRUE, bytes |-> cache.bytes]
             /\ checkedLinks' =
                    IF checkedLinks.isNil
                    THEN [isNil |-> FALSE, m |-> LoadCheckedLinks(cache.bytes)]
                    ELSE checkedLinks
             /\ pc' = "walk"
             /\ UNCHANGED <<result, cause>>
    /\ UNCHANGED <<tree, entries, docIdx, links, linkIdx, log, flushes, run,
                   prevLog, prevResult, cache0, entries0, pureVars>>

\* The callback of filepath.Walk, lines 177-188, for the next file, with
\* lines 55-68 of processLinksInMarkdownFile: a markdown document is opened,
\* read and parsed; failing to open or read it ends the walk with the error.
WalkFile ==
    /\ pc = "walk"
    /\ linkIdx > Len(links)
    /\ docIdx <= Len(tree)
    /\ LET f == tree[docIdx]
       IN  IF IsMarkdown(f.name) /\ ~f.readable
           THEN /\ pc' = "exit"
                /\ result' = "err"
                /\ cause' = "docread"
                /\ UNCHANGED <<docIdx, links, linkIdx>>
           ELSE /\ docIdx' = docIdx + 1
                /\ links' = IF IsMarkdown(f.name)
                            THEN parseLinksFromMarkdown(f.text) ELSE <<>>
                /\ linkIdx' = 1
                /\ UNCHANGED <<pc, result, cause>>
    /\ UNCHANGED <<tree, cache, entries, checkedLinks, log, flushes, run,
                   prevLog, prevResult, cache0, entries0, pureVars>>

\* What the environment answers while one link is processed: everything
\* succeeds, readability.FromURL fails, os.Mkdir fails, os.Create fails.
LinkEnvs == {"ok", "fetchErr", "mkdirErr", "createErr"}

\* yaml.Marshal fails; WriteString fails; the process dies after os.Mkdir,
\* after os.Create, or within WriteString.
LinkFaults == {"marshalErr", "writeErr", "crashMkdir", "crashCreate", "crashWrite"}

\* The outcomes of a link for which readability.FromURL was called.
Fetched ==
    {"fetchfail", "marshalfail", "mkdirfail", "createfail", "archived", "crashed"}

\* Lines 91-95 with a return of the error in place of the continue.
fetchFailedReturns(cl, e, linkID) ==
    [cl |-> cl, e |-> e, out |-> "fetchfail", ret |-> "err"]

\* Lines 91-95: readability.FromURL failed.  The link is marked checked and
\* the loop continues.
fetchFailed(cl, e, linkID) ==
    [cl |-> setLinkChecked(cl, linkID), e |-> e, out |-> "fetchfail",
     ret |-> "continue"]

\* One iteration of the loop of processLinksInMarkdownFile, lines 76-124, on
\* the link, for which getLinkID returned r, with the map cl and the entry
\* directories e, under the environment's answer env, at the time now: the
\* map and the directories after it, the outcome of the link, and whether
\* the loop continues or the function returns an error ("err") or the
\* process is gone ("crash").
processLink(cl, e, link, r, env, now) ==
    LET linkID   == r.id
        marked   == setLinkChecked(cl, linkID)
        Made(st) == PutEntry(e, linkID, [st |-> st, url |-> link, at |-> now])
        R(cl2, e2, out, ret) == [cl |-> cl2, e |-> e2, out |-> out, ret |-> ret]
    IN  IF isLinkCheckedBefore(cl, linkID) THEN R(cl, e, "cached", "continue")
        ELSE IF Stat(e, linkID) THEN R(marked, e, "ondisk", "continue")
        ELSE CASE env = "fetchErr"    -> fetchFailed(cl, e, linkID)
               [] env = "marshalErr"  -> R(cl, e, "marshalfail", "continue")
               [] env = "mkdirErr"    -> R(cl, e, "mkdirfail", "err")
               [] env = "crashMkdir"  -> R(cl, Made("dir"), "crashed", "crash")
               [] env = "createErr"   -> R(cl, Made("dir"), "createfail", "err")
               [] env = "crashCreate" -> R(cl, Made("file"), "crashed", "crash")
               [] env = "crashWrite"  -> R(cl, Made("file"), "crashed", "crash")
               [] env = "writeErr"    -> R(marked, Made("file"), "archived", "continue")
               [] env = "ok"          -> R(marked, Made("done"), "archived", "continue")

\* The loop of processLinksInMarkdownFile advances by one link, lines 70-124.
\* A link whose LinkID cannot be computed is reported (lines 72-74) and then
\* processed with the empty LinkID that getLinkID returned.
LinkStep(env) ==
    /\ pc = "walk"
    /\ linkIdx <= Len(links)
    /\ \E r \in {getLinkID(links[linkIdx])} :
        \E s \in {processLink(checkedLinks, entries, links[linkIdx], r, env, run)} :
           /\ checkedLinks' = s.cl
           /\ entries' = s.e
           /\ log' = Append(log, [link |-> links[linkIdx], id |-> r.id,
                                  iderr |-> r.err, out |-> s.out])
           /\ IF s.ret = "continue"
              THEN /\ linkIdx' = linkIdx + 1
                   /\ UNCHANGED <<pc, result, cause>>
              ELSE /\ pc' = "exit"
                   /\ result' = s.ret
                   /\ cause' = s.out
                   /\ UNCHANGED linkIdx
    /\ UNCHANGED <<tree, cache, docIdx, links, flushes, run, prevLog,
                   prevResult, cache0, entries0, pureVars>>

ProcessLink == \E env \in LinkEnvs : LinkStep(env)

\* FlushStep without waiting for the end of the walk: the cache file is
\* written, and Archive returns, while files or links are left.
FlushStepEarly(io) ==
    /\ pc = "walk"
    /\ pc' = "exit"
    /\ result' = IF io = "err" THEN "err" ELSE "nil"
    /\ cause' = IF io = "err" THEN "cachewrite" ELSE cause
    /\ cache' = IF io = "ok"
                THEN [cache EXCEPT !.bytes = writeCheckedLinkCache(cache.bytes, checkedLinks.m)]
                ELSE cache
    /\ flushes' = IF io = "err" THEN flushes ELSE flushes + 1
    /\ UNCHANGED <<tree, entries, checkedLinks, docIdx, links, linkIdx, log,
                   run, prevLog, prevResult, cache0, entries0, pureVars>>

\* The end of Archive, lines 189-196, with writeCheckedLinkCache, under the
\* environment's answer io: the file is opened and written ("ok"), the open
\* fails ("err"), WriteString fails ("writeErr": its error is dropped).
FlushStep(io) ==
    /\ pc = "walk"
    /\ linkIdx > Len(links)
    /\ docIdx > Len(tree)
    /\ pc' = "exit"
    /\ CASE io = "err" ->
              /\ result' = "err"
              /\ cause' = "cachewrite"
              /\ UNCHANGED <<cache, flushes>>
         [] io = "writeErr" ->
              /\ result' = "nil"
              /\ UNCHANGED <<cache, cause>>
              /\ flushes' = flushes + 1
         [] io = "ok" ->
              /\ result' = "nil"
              /\ cache' = [cache EXCEPT !.bytes = writeCheckedLinkCache(cache.bytes, checkedLinks.m)]
              /\ flushes' = flushes + 1
              /\ UNCHANGED cause
    /\ UNCHANGED <<tree, entries, checkedLinks, docIdx, links, linkIdx, log,
                   run, prevLog, prevResult, cache0, entries0, pureVars>>

ArchiveEnd == \E io \in {"ok", "err"} : FlushStep(io)

\* main is started again on the same input tree and output directory: a new
\* process, whose Archiver has a nil map.
Rerun ==
    /\ pc = "exit"
    /\ run < MaxRuns
    /\ run' = run + 1
    /\ pc' = "start"
    /\ result' = "none"
    /\ cause' = "none"
    /\ checkedLinks' = NilMap
    /\ docIdx' = 1
    /\ links' = <<>>
    /\ linkIdx' = 1
    /\ log' = <<>>
    /\ flushes' = 0
    /\ prevLog' = log
    /\ prevResult' = result
    /\ cache0' = cache
    /\ entries0' = entries
    /\ UNCHANGED <<tree, cache, entries, pureVars>>

Next == ArchiveBegin \/ WalkFile \/ ProcessLink \/ ArchiveEnd \/ Rerun

Spec == Init /\ [][Next]_vars

\* ------------------------------------------------------------------------
\* Runs in which a write fails, the serializer fails or the process dies
\* ------------------------------------------------------------------------

ProcessLinkFault == \E env \in LinkFaults : LinkStep(env)

ArchiveEndFault == FlushStep("writeErr")

NextFaults == Next \/ ProcessLinkFault \/ ArchiveEndFault

\* The first run starts on an output directory without a cache file or with
\* an empty one.
InitFaults ==
    /\ \E t \in Trees, c \in {d \in PriorCaches : d.bytes = <<>>} :
            ArchInit(t, c, [id \in EntryIds |-> NoEntry], "start")
    /\ PureIdle

SpecFaults == InitFaults /\ [][NextFaults]_vars

\* Runs in which nothing fails but, for some links, yaml.Marshal (lines
\* 103-107).
ProcessLinkMarshalFault == LinkStep("marshalErr")

NextMarshal == Next \/ ProcessLinkMarshalFault

SpecMarshal == InitFaults /\ [][NextMarshal]_vars

\* The program is not started.
ArchOff ==
    ArchInit(<<>>, [exists |-> FALSE, bytes |-> <<>>],
             [id \in EntryIds |-> NoEntry], "off")

\* ------------------------------------------------------------------------
\* The extractor on its own
\* ------------------------------------------------------------------------

\* Largest number of tokens of a document text.
MaxTokens == 4

Label == <<"[", "l", "]">>
Target(u) == <<"(">> \o u \o <<")">>

\* What document texts are made of: a space, "!", a line break, "[", a label
\* without a target, and links to an http URL, to an https URL and to a URL
\* that is only a scheme.
Tokens ==
    {<<" ">>, <<"!">>, <<NL>>, <<"[">>, Label,
     Label \o Target(UrlA), Label \o Target(UrlA2),
     Label \o Target(HTTP \o SchemeSep)}

\* markdown is the sequence of the tokens of the text.
ExtractInit ==
    /\ ArchOff
    /\ markdown = <<>>
    /\ parsed = NotParsed
    /\ idIn = <<>>
    /\ idOut = <<>>

AppendToken ==
    /\ ~parsed.done
    /\ Len(markdown) < MaxTokens
    /\ \E tok \in Tokens : markdown' = Append(markdown, tok)
    /\ UNCHANGED <<archVars, parsed, idIn, idOut>>

ParseMarkdown ==
    /\ ~parsed.done
    /\ parsed' = [done |-> TRUE,
                  matches |-> FindAllStringSubmatch(Flatten(markdown), 1),
                  links |-> parseLinksFromMarkdown(Flatten(markdown))]
    /\ UNCHANGED <<archVars, markdown, idIn, idOut>>

ExtractNext == AppendToken \/ ParseMarkdown

SpecExtract == ExtractInit /\ [][ExtractNext]_vars

\* ------------------------------------------------------------------------
\* The identifier on its own
\* ------------------------------------------------------------------------

\* Largest length of what follows the padding of a host.
MaxTail == 2
\* How far below MaxPrefix - 1 the lengths of the long hosts start.
PadSlack == 2

Pad(n) == [i \in 1..n |-> "a"]

\* Tails within the domain of urlParse: a space only in the host.
Tails ==
    {t \in SeqsUpTo({"/", "b", "?", "~", " "}, MaxTail) :
        \A i \in 1..Len(t) : t[i] = " " => \A j \in 1..i : t[j] \notin {"/", "?"}}

\* Links with a short host and with hosts about MaxPrefix long.
IdUrls ==
    {HTTP \o SchemeSep \o Pad(n) \o t :
        n \in {1} \cup ((MaxPrefix - 1 - PadSlack)..(MaxPrefix - 1)), t \in Tails}

\* idIn is the link, idOut the result of getLinkID on it.
IdentifyInit ==
    /\ ArchOff
    /\ markdown = <<>>
    /\ parsed = NotParsed
    /\ idIn \in IdUrls
    /\ idOut = NotIdentified

Identify ==
    /\ ~idOut.done
    /\ \E r \in {getLinkID(idIn)} :
            idOut' = [done |-> TRUE, err |-> r.err, id |-> r.id]
    /\ UNCHANGED <<archVars, markdown, parsed, idIn>>

\* The link is replaced by another one.
NextLink ==
    /\ idOut.done
    /\ idIn' \in IdUrls
    /\ idOut' = NotIdentified
    /\ UNCHANGED <<archVars, markdown, parsed>>

IdentifyNext == Identify \/ NextLink

SpecIdentify == IdentifyInit /\ [][IdentifyNext]_vars

\* ------------------------------------------------------------------------
\* Properties
\* ------------------------------------------------------------------------

\* The lines of the cache file.
Lines(bytes) == Range(Split(bytes))

\* The positions of the log l at which the fetcher was called for id.
FetchesOf(l, id) == {k \in 1..Len(l) : l[k].id = id /\ l[k].out \in Fetched}

\* The positions of the log l at which os.Mkdir made the directory of id.
MkdirsOf(l, id) ==
    {k \in 1..Len(l) : l[k].id = id /\ l[k].out \in {"archived", "createfail", "crashed"}}

\* The links of the documents of the tree t, in the order of the walk.
AllLinks(t) ==
    Flatten([k \in 1..Len(t) |->
                IF t[k].name \in {MdName, MarkdownName}
                THEN parseLinksFromMarkdown(t[k].text) ELSE <<>>])

Returned(res) == pc = "exit" /\ result = res

\* C1: a run that follows a run that returned nil, on the same input tree and
\* the output directory the first run left, never calls the fetcher.
C1_SecondRunFetchesNothing ==
    (run > 1 /\ prevResult = "nil") =>
        \A k \in 1..Len(log) : log[k].out \notin Fetched

\* C2: when the entry directory of a LinkID exists at the start of a run and
\* the cache file is missing or empty, the run does not call the fetcher for
\* a link with that LinkID, leaves the entry as it was, and, when it returns
\* nil having discovered such a link, has written the LinkID to the cache
\* file.
C2_Reconciliation ==
    \A id \in EntryIds :
        (entries0[id].st # "none" /\ cache0.bytes = <<>>) =>
            /\ FetchesOf(log, id) = {}
            /\ entries[id] = entries0[id]
            /\ (Returned("nil") /\ \E k \in 1..Len(log) : log[k].id = id)
                    => id \in Lines(cache.bytes)

\* C2's case: a run returned nil after it found, with an empty or missing
\* cache file, a link whose entry directory was there before.
C2_Witness ==
    /\ Returned("nil")
    /\ \E id \in EntryIds :
        /\ entries0[id].st # "none"
        /\ cache0.bytes = <<>>
        /\ \E k \in 1..Len(log) : log[k].id = id /\ log[k].out = "ondisk"

C4_FetchFailureNotRetried ==
    /\ \A k \in 1..Len(log) :
        log[k].out = "fetchfail" =>
            /\ entries[log[k].id].st = "none"
            /\ log[k].id \in checkedLinks.m
    /\ (run > 1 /\ prevResult = "nil") =>
        \A k \in 1..Len(prevLog) :
            prevLog[k].out = "fetchfail" => FetchesOf(log, prevLog[k].id) = {}

\* C5: no link is skipped by the existence check of lines 80-87 while its
\* entry directory lacks the complete index.html.
C5_NoPartialEntrySkipped ==
    \A k \in 1..Len(log) :
        (log[k].out = "ondisk" /\ ~log[k].iderr) => entries[log[k].id].st = "done"

\* C7: when Archive has returned nil the cache file holds the LinkIDs of the
\* map, each once, sorted and joined by line breaks, and nothing else.
C7_CacheFullyRewritten ==
    Returned("nil") => cache.bytes = Join(SortStrings(checkedLinks.m))

\* C8: a run ends with nil, after it processed every link of every document
\* and wrote the cache file, unless a document could not be read or a call
\* on the output directory failed; a link whose LinkID could not be computed
\* or whose fetch failed never ends it.
C8_PerLinkErrorsIsolated ==
    /\ Returned("nil") =>
        /\ [k \in 1..Len(log) |-> log[k].link] = AllLinks(tree)
        /\ flushes = 1
        /\ \A k \in 1..Len(tree) :
            tree[k].name \in {MdName, MarkdownName} => tree[k].readable
    /\ Returned("err") =>
        /\ cause \in {"cacheread", "docread", "mkdirfail", "createfail", "cachewrite"}
        /\ flushes = 0
        /\ cause = "docread" => ~tree[docIdx].readable
    /\ pc = "exit" => result \in {"nil", "err"}
    /\ (pc = "walk" /\ \E k \in 1..Len(tree) :
            tree[k].name \in {MdName, MarkdownName} /\ ~tree[k].readable)
        => docIdx <= Len(tree)

\* C8's case: a run returned nil in which a link without LinkID and a link
\* whose fetch failed were each followed by a link that was fetched.
C8_Witness ==
    /\ Returned("nil")
    /\ \E i, j \in 1..Len(log) :
        /\ log[i].iderr
        /\ log[j].out = "fetchfail"
        /\ \E k \in 1..Len(log) : k > i /\ log[k].out \in Fetched
        /\ \E k \in 1..Len(log) : k > j /\ log[k].out = "archived"

\* The links of the identifier's inputs, normalized and identified.
NormalizedOf == [v \in IdUrls |-> Normalize(urlParse(v))]
LinkIdOf == [v \in IdUrls |-> getLinkID(v)]

\* C6: two links whose normalized strings differ but agree on their first
\* MaxPrefix code points have different LinkIDs.
C6_DistinctBeyondTruncation ==
    (idOut.done /\ ~idOut.err) =>
        \A v \in IdUrls :
            ( /\ ~LinkIdOf[v].err
              /\ NormalizedOf[v] # NormalizedOf[idIn]
              /\ Truncate(NormalizedOf[v]) = Truncate(NormalizedOf[idIn]) )
            => LinkIdOf[v].id # idOut.id

\* The text has, with its "[" at index b, a markdown link [label](URL): a
\* label of one or more characters that are no brackets, and a URL without
\* parentheses that starts with http:// or https:// and goes on after it.
IsLinkAt(t, b) ==
    LET le == RunEnd(t, b + 1, {"[", "]"})
        us == le + 2
        ue == RunEnd(t, us, {"(", ")"})
    IN  /\ HasAt(t, b, <<"[">>)
        /\ le > b + 1
        /\ HasAt(t, le, <<"]", "(">>)
        /\ HasAt(t, ue, <<")">>)
        /\ \/ HasAt(t, us, HTTP \o SchemeSep) /\ ue - us > 7
           \/ HasAt(t, us, HTTP \o <<"s">> \o SchemeSep) /\ ue - us > 8

\* Where the URL of the link at b starts, and the URL.
UrlStartAt(t, b) == RunEnd(t, b + 1, {"[", "]"}) + 2
UrlAt(t, b) == SubSeq(t, UrlStartAt(t, b), RunEnd(t, UrlStartAt(t, b), {"(", ")"}) - 1)

\* The URLs of the links of t whose "[" follows a character other than "!",
\* in the order of the text.
LinksNotImages(t) ==
    LET at == SelectSeq([b \in 1..Len(t) |-> b],
                        LAMBDA b : IsLinkAt(t, b) /\ b > 1 /\ t[b - 1] # "!")
    IN  [n \in 1..Len(at) |-> UrlAt(t, at[n])]

\* Where the URLs of the image links of t start.
ImageUrlStarts(t) ==
    {UrlStartAt(t, b) : b \in {c \in 2..Len(t) : IsLinkAt(t, c) /\ t[c - 1] = "!"}}

\* C9: parseLinksFromMarkdown returns, in the order of the text and with
\* repetitions, the URL of every link [label](URL) with an http(s) URL of at
\* least one character after the scheme whose "[" follows a character other
\* than "!", and nothing else.
C9_ExtractsEveryLink ==
    parsed.done => parsed.links = LinksNotImages(Flatten(markdown))

\* C10: no URL that parseLinksFromMarkdown returns is the URL of an image
\* link, a link whose "[" follows "!".
C10_NoImageLinks ==
    parsed.done =>
        \A n \in 1..Len(parsed.matches) :
            parsed.matches[n].capStart \notin ImageUrlStarts(Flatten(markdown))

\* C10's case: the text has an image link and a link that is returned.
C10_Witness ==
    /\ parsed.done
    /\ ImageUrlStarts(Flatten(markdown)) # {}
    /\ parsed.links # <<>>

\* C11: a LinkID that getLinkID returns is a prefix of at most MaxPrefix code
\* points, then "_", then 8 hexadecimal digits.
C11_BoundedPrefix ==
    (idOut.done /\ ~idOut.err) =>
        LET n == Len(idOut.id) - 9
        IN  /\ n >= 0
            /\ n <= MaxPrefix
            /\ idOut.id[n + 1] = "_"
            /\ \A i \in (n + 2)..(n + 9) : idOut.id[i] \in Range(HexDigits)

\* C11's case: getLinkID returned the LinkID of a link whose normalized
\* string is longer than MaxPrefix.
C11_Witness ==
    /\ idOut.done
    /\ ~idOut.err
    /\ Len(NormalizedOf[idIn]) > MaxPrefix
    /\ Len(idOut.id) = MaxPrefix + 9

\* C12: Archive returns an error when reading the cache file at the start
\* or writing it at the end failed; when it has returned nil the cache file
\* holds the LinkIDs of the map.
C12_CacheIOErrorsFatal ==
    /\ (pc = "exit" /\ cause \in {"cacheread", "cachewrite"}) => result = "err"
    /\ Returned("nil") => LoadCheckedLinks(cache.bytes) = checkedLinks.m

\* C13: a link for which os.Mkdir or os.Create failed is the last of the
\* run, which returned an error without marking the link or writing the
\* cache file; and a link reported as archived has its index.html with the
\* whole content, that is, no failed WriteString is passed over.
C13_WriteErrorsFatal ==
    \A k \in 1..Len(log) :
        /\ log[k].out \in {"mkdirfail", "createfail"} =>
                /\ k = Len(log)
                /\ Returned("err")
                /\ log[k].id \notin checkedLinks.m
                /\ flushes = 0
        /\ (log[k].out = "archived" /\ ~log[k].iderr) =>
                entries[log[k].id].st = "done"

\* C14: when Archive has returned nil, the LinkID of every link the run
\* found is in the map and is a line of the cache file, whatever became of
\* the link.
C14_EveryOutcomeMarked ==
    Returned("nil") =>
        \A k \in 1..Len(log) :
            /\ log[k].id \in checkedLinks.m
            /\ log[k].id \in Lines(cache.bytes)

\* C15: when the cache file was absent or empty at the start of the run, the
\* map is empty right after initCheckedLinkCache, before any link has been
\* processed: isLinkCheckedBefore is false for every string.
C15_AbsentLoadsEmpty ==
    (pc = "walk" /\ log = <<>> /\ cache0.bytes = <<>>) =>
        \A id \in EntryIds \cup {<<>>} : ~isLinkCheckedBefore(checkedLinks, id)

\* C16: a run writes the cache file at most once, and only when every link
\* of every markdown document of the tree has been processed; until then,
\* and when Archive returns an error, the file has the content it had when
\* the run started.
C16_SingleFlushAtEnd ==
    /\ flushes <= 1
    /\ flushes = 1 =>
            /\ Returned("nil")
            /\ [k \in 1..Len(log) |-> log[k].link] = AllLinks(tree)
    /\ (flushes = 0 \/ Returned("err")) => cache.bytes = cache0.bytes

\* C16's case: a run processed two links or more and then wrote the cache
\* file, which changed.
C16_Witness ==
    /\ Returned("nil")
    /\ flushes = 1
    /\ Len(log) >= 2
    /\ cache.bytes # cache0.bytes

\* C17: the step that processes a link for which getLinkID returned an error
\* calls no fetcher, leaves every entry directory as it is, and goes on to
\* the next link.
C17_MalformedLinkSkipped ==
    [][ (Len(log') = Len(log) + 1 /\ log'[Len(log')].iderr) =>
            /\ log'[Len(log')].out \notin Fetched
            /\ entries' = entries
            /\ linkIdx' = linkIdx + 1
            /\ pc' = "walk" ]_vars

\* C17's case: a link without LinkID was processed while the map did not
\* hold the empty string, and the link after it was fetched and archived.
C17_Witness ==
    \E k \in 1..(Len(log) - 1) :
        /\ log[k].iderr
        /\ log[k].out = "ondisk"
        /\ log[k + 1].out = "archived"

\* C18: an entry directory that has its index.html with the whole content
\* is left as it is by every step of this run and of every later run: its
\* URL, its time and its content stay as first written.
C18_EntriesWriteOnce ==
    [][ \A id \in EntryIds :
            entries[id].st = "done" => entries'[id] = entries[id] ]_vars

\* C18's case: a later run, whose cache file does not hold the LinkID, finds
\* a link whose entry was complete when the run started.
C18_Witness ==
    /\ run > 1
    /\ \E k \in 1..Len(log) :
        /\ ~log[k].iderr
        /\ log[k].out = "ondisk"
        /\ entries0[log[k].id].st = "done"
        /\ entries[log[k].id] = entries0[log[k].id]

\* The match of parseLinksFromMarkdown whose URL is that of the link at b.
Returns(p, t, b) ==
    \E n \in 1..Len(p.matches) : p.matches[n].capStart = UrlStartAt(t, b)

CacheEntries(bytes) == IF bytes = <<>> THEN {} ELSE Lines(bytes)

\* C20: when Archive has returned nil, every entry of the cache file was an
\* entry of the file before the run or is the LinkID that getLinkID returned
\* without error for a link of the run; the empty string is no such LinkID.
C20_CacheProvenance ==
    Returned("nil") =>
        \A l \in CacheEntries(cache.bytes) :
            \/ l \in CacheEntries(cache0.bytes)
            \/ \E k \in 1..Len(log) : ~log[k].iderr /\ log[k].id = l

====
